---- MODULE Spec2Model ----
(***************************************************************************)
(* hug_swagger: generation of an OpenAPI / Swagger document from the route *)
(* table of a hug application.                                             *)
(*                                                                         *)
(* Two generators live in the package and both are modelled:               *)
(*   hug_swagger/__init__.py  swagger_json, get_parameters, get_operation  *)
(*   hug_swagger/swagger.py   generate_spec, get_parameters                *)
(* The definitions of hug_swagger/swagger.py whose names clash with those  *)
(* of __init__.py carry the prefix swagger_.                               *)
(*                                                                         *)
(* Python values are records tagged by "kind"; a str that the code takes   *)
(* apart (a url, an argument name) is a sequence of one-character strings; *)
(* a dict is a function whose DOMAIN is its key set.                       *)
(***************************************************************************)
EXTENDS Integers, Sequences, FiniteSets, TLC

VARIABLES
    routes,     \* hug_api.http.routes['']: the route table with its handlers
    settings,   \* the module-level settings object of __init__.py
    ret         \* what the last call returned (or raised)

vars == <<routes, settings, ret>>

(***************************************************************************)
(* Bounds of the model.                                                    *)
(***************************************************************************)
MaxUrlLen == 4        \* characters of a url after its leading "/"
MaxArgs == 2          \* arguments of a handler
MaxRoutes == 2        \* routes of the table
MaxVersion == 2       \* api versions are 0 .. MaxVersion
MaxDecorators == 2    \* @response decorators stacked on one handler

(***************************************************************************)
(* str operations.                                                         *)
(***************************************************************************)
\* sub in s
Contains(s, sub) ==
    \E i \in 0 .. (Len(s) - Len(sub)) : SubSeq(s, i + 1, i + Len(sub)) = sub

\* s.startswith(prefix)
StartsWith(s, prefix) ==
    /\ Len(s) >= Len(prefix)
    /\ SubSeq(s, 1, Len(prefix)) = prefix

\* "{%s}" % name
Placeholder(name) == <<"{">> \o name \o <<"}">>

\* str(n) for a natural number, as characters
DigitChar(d) ==
    CASE d = 0 -> "0" [] d = 1 -> "1" [] d = 2 -> "2" [] d = 3 -> "3"
      [] d = 4 -> "4" [] d = 5 -> "5" [] d = 6 -> "6" [] d = 7 -> "7"
      [] d = 8 -> "8" [] d = 9 -> "9"

RECURSIVE IntToStr(_)
IntToStr(n) ==
    IF n < 10 THEN <<DigitChar(n)>>
    ELSE IntToStr(n \div 10) \o <<DigitChar(n % 10)>>

\* method.lower() on the method names hug stores
Lower(method) ==
    CASE method = "GET" -> "get"
      [] method = "POST" -> "post"
      [] method = "PUT" -> "put"
      [] method = "DELETE" -> "delete"
      [] OTHER -> method

BODY == <<"b", "o", "d", "y">>
REQUEST == <<"r", "e", "q", "u", "e", "s", "t">>
RESPONSE == <<"r", "e", "s", "p", "o", "n", "s", "e">>
HUG_PREFIX == <<"h", "u", "g", "_">>

(***************************************************************************)
(* Python objects.                                                         *)
(***************************************************************************)
EmptyDict == <<>>

\* inspect.Parameter.empty: no annotation, no default
EMPTY == [kind |-> "empty"]
None == [kind |-> "none"]
IntValue(n) == [kind |-> "int", n |-> n]
StrValue(text) == [kind |-> "str", text |-> text]

\* a marshmallow fields.Field instance: metadata and required are attributes
Field(ftype, metadata, required) ==
    [kind |-> "field", ftype |-> ftype, metadata |-> metadata, required |-> required]
\* a hug directive (an object whose attribute directive is true)
Directive == [kind |-> "directive"]
\* a marshmallow Schema subclass and an instance of it
SchemaClass(c) == [kind |-> "schema_class", cls |-> c]
SchemaInstance(c) == [kind |-> "schema_instance", cls |-> c]
\* any other class and any other object (a hug type, class A, A())
OtherClass == [kind |-> "class"]
OtherObject == [kind |-> "object"]

\* The Schema subclasses of the application: S1 and S2 are two distinct
\* classes with the same name in the same module, S3 has that name in
\* another module, S4 another name.
SchemaClasses == {"S1", "S2", "S3", "S4"}
ClassModule(c) == IF c = "S3" THEN "lib.schemas" ELSE "app.schemas"
ClassName(c) == IF c = "S4" THEN "B" ELSE "A"
\* the definition apispec derives from the class's declared fields
ClassFields(c) ==
    CASE c = "S1" -> {"a", "b"}
      [] c = "S2" -> {"a"}
      [] c = "S3" -> {"x"}
      [] c = "S4" -> {"y"}

IsDirective(x) == x.kind = "directive"          \* getattr(x, 'directive', False)
IsField(x) == x.kind = "field"                  \* isinstance(x, fields.Field)
IsSchema(x) == x.kind = "schema_instance"       \* isinstance(x, Schema)
IsSchemaMeta(x) == x.kind = "schema_class"      \* isinstance(x, SchemaMeta)
IsClass(x) == x.kind \in {"schema_class", "class"}   \* inspect.isclass(x)
IsStr(x) == x.kind = "str"                      \* isinstance(x, str)
\* bool(x) of a default value or a version
Truthy(x) ==
    CASE x.kind = "none" -> FALSE
      [] x.kind = "int" -> x.n # 0
      [] x.kind = "str" -> x.text # ""
      [] OTHER -> TRUE

\* a dict with one more key (d[k] = v)
Put(d, k, v) == [x \in (DOMAIN d) \cup {k} |-> IF x = k THEN v ELSE d[x]]
\* {'$ref': pointer}
Ref(pointer) == [k \in {"$ref"} |-> pointer]

(***************************************************************************)
(* The application: handlers, interfaces and the route table.              *)
(***************************************************************************)
\* one argument of a handler's signature (inspect.Parameter)
Parameter(name, annotation, default) ==
    [name |-> name, annotation |-> annotation, default |-> default]

\* a handler function: signature, docstring (its lines; <<>> when it has
\* none) and the swagger_responses attribute the decorators attach
Handler(parameters, return_annotation, swagger_responses, doc) ==
    [parameters |-> parameters, return_annotation |-> return_annotation,
     swagger_responses |-> swagger_responses, doc |-> doc]

\* one entry of routes[''][url][method][versions] = interface
Route(url, method, versions, handler) ==
    [url |-> url, method |-> method, versions |-> versions, handler |-> handler]

(***************************************************************************)
(* apispec, as the two generators use it.                                  *)
(***************************************************************************)
\* apispec's __location_map__.get(location, default)
LocationMap(location, default) ==
    CASE location \in {"query", "querystring"} -> "query"
      [] location = "json" -> "body"
      [] location = "headers" -> "header"
      [] location = "cookies" -> "cookie"
      [] location \in {"form", "files"} -> "formData"
      [] OTHER -> default

\* field2property: the type description of a field
Field2Property(field) ==
    IF field.ftype = "integer"
    THEN [type |-> "integer", format |-> "int32"]
    ELSE [type |-> field.ftype]

\* field2parameter(field, name=name, default_in=default_in): reads the
\* field's metadata['location'] and its required attribute; the 2.x
\* dialect merges the property into the parameter, 3.x nests it as schema
Field2Parameter(field, name, default_in, major) ==
    LET location == IF "location" \in DOMAIN field.metadata
                    THEN field.metadata["location"] ELSE "None"
        place == LocationMap(location, LocationMap(default_in, default_in))
        prop == Field2Property(field)
        base == [in |-> place, name |-> name, required |-> field.required]
    IN  IF major < 3
        THEN [k \in (DOMAIN base) \cup (DOMAIN prop) |->
                IF k \in DOMAIN prop THEN prop[k] ELSE base[k]]
        ELSE Put(base, "schema", prop)

\* spec.components.schema(name, schema=schema): raises
\* DuplicateComponentNameError when the name is taken, whatever the content
ComponentsSchema(definitions, name, schema) ==
    IF name \in DOMAIN definitions
    THEN [raised |-> "DuplicateComponentNameError", definitions |-> definitions]
    ELSE [raised |-> "", definitions |-> Put(definitions, name, ClassFields(schema.cls))]

\* spec.definition(name, schema=schema) of the apispec release __init__.py
\* imports: the definition is stored under the name, replacing any other
Definition(definitions, name, schema) ==
    Put(definitions, name, ClassFields(schema.cls))

\* spec.path(url, operations=...) / spec.add_path(url, operations=...):
\* paths.setdefault(path, {}).update(operations)
AddPath(paths, path, method, operation) ==
    Put(paths, path,
        Put(IF path \in DOMAIN paths THEN paths[path] ELSE EmptyDict, method, operation))

(***************************************************************************)
(* hug_swagger/swagger.py                                                  *)
(***************************************************************************)
PARAMETER_IN_PATH == "path"
PARAMETER_IN_QUERY == "query"

swagger_get_summary(doc) == Head(doc)

\* a location test that forgets the braces of the placeholder
get_parameter_location_bare(name, url) ==
    IF Contains(url, name) THEN PARAMETER_IN_PATH ELSE PARAMETER_IN_QUERY

get_parameter_location(name, url) ==
    IF Contains(url, Placeholder(name)) THEN PARAMETER_IN_PATH ELSE PARAMETER_IN_QUERY

\* a skip test that looks at the annotation only
swagger_is_skipped_directive_only(name, parameter_kind) ==
    IsDirective(parameter_kind)

\* line 41: directives and helper auto-included arguments
swagger_is_skipped(name, parameter_kind) ==
    \/ IsDirective(parameter_kind)
    \/ StartsWith(name, HUG_PREFIX)
    \/ name \in {REQUEST, RESPONSE}

\* a default test by truthiness (if handler_parameter.default:)
swagger_with_default_truthy(parameter, default) ==
    IF default # EMPTY /\ Truthy(default)
    THEN Put(Put(parameter, "default", default), "required", FALSE)
    ELSE Put(parameter, "required", TRUE)

\* lines 51-57: required and default of a typed-field parameter
swagger_with_default(parameter, default) ==
    LET has_default == default # EMPTY
    IN  IF has_default
        THEN Put(Put(parameter, "default", default), "required", FALSE)
        ELSE Put(parameter, "required", TRUE)

\* lines 46-47: the field annotation after metadata = {"location": place}
swagger_locate_field(parameter_kind, name, url) ==
    [parameter_kind EXCEPT !.metadata = [location |-> get_parameter_location(name, url)]]

\* lines 45-58
swagger_field_parameter(parameter_kind, name, default, url, major) ==
    LET parameter_place == get_parameter_location(name, url)
    IN  swagger_with_default(
            Field2Parameter(parameter_kind, name, parameter_place, major), default)

\* line 61
swagger_is_schema_class(parameter_kind) ==
    IsClass(parameter_kind) /\ IsSchemaMeta(parameter_kind)

\* issubclass() called on something that is no class raises TypeError
swagger_skip_body_raising(acc) == [acc EXCEPT !.raised = "TypeError"]

\* lines 63-65: a body that is no Schema class or instance is skipped
swagger_skip_body(acc) == acc

\* line 68: f"{schema.__module__}.{schema.__class__.__name__}"
swagger_schema_name(schema) ==
    ClassModule(schema.cls) \o "." \o ClassName(schema.cls)

\* a registration that lets DuplicateComponentNameError escape
swagger_register_uncaught(definitions, schema_name, schema) ==
    ComponentsSchema(definitions, schema_name, schema)

\* lines 70-73: a name already registered is no error
swagger_register(definitions, schema_name, schema) ==
    LET r == ComponentsSchema(definitions, schema_name, schema)
    IN  IF r.raised = "DuplicateComponentNameError"
        THEN [raised |-> "", definitions |-> definitions]
        ELSE r

\* lines 75-80
swagger_body_parameter(schema_name) ==
    [in |-> "body", name |-> BODY, required |-> TRUE,
     schema |-> Ref("#/components/schemas/" \o schema_name)]

\* lines 38-80: one turn of the loop over the handler's arguments.  acc is
\* [parameters, definitions, handler_parameters, raised]: the list built so
\* far, the spec's schema registry, the handler's arguments (whose
\* annotation objects the loop writes to) and the exception raised, if any
swagger_classify(acc, i, url, major) ==
    LET p == acc.handler_parameters[i]
        name == p.name
        parameter_kind == p.annotation
    IN  IF swagger_is_skipped(name, parameter_kind) THEN acc
        ELSE IF IsField(parameter_kind) THEN
            LET located == swagger_locate_field(parameter_kind, name, url)
            IN  [acc EXCEPT
                    !.handler_parameters[i].annotation = located,
                    !.parameters = Append(@,
                        swagger_field_parameter(located, name, p.default, url, major))]
        ELSE IF name = BODY THEN
            IF ~IsSchema(parameter_kind) /\ ~swagger_is_schema_class(parameter_kind)
            THEN swagger_skip_body(acc)
            ELSE
                LET schema == IF swagger_is_schema_class(parameter_kind)
                              THEN SchemaInstance(parameter_kind.cls)
                              ELSE parameter_kind
                    schema_name == swagger_schema_name(schema)
                    r == swagger_register(acc.definitions, schema_name, schema)
                IN  IF r.raised # ""
                    THEN [acc EXCEPT !.raised = r.raised]
                    ELSE [acc EXCEPT
                            !.definitions = r.definitions,
                            !.parameters = Append(@, swagger_body_parameter(schema_name))]
        ELSE acc

RECURSIVE swagger_parameters_from(_, _, _, _)
swagger_parameters_from(acc, i, url, major) ==
    IF i > Len(acc.handler_parameters) \/ acc.raised # "" THEN acc
    ELSE swagger_parameters_from(swagger_classify(acc, i, url, major), i + 1, url, major)

\* get_parameters(converter, spec, interface, url) of swagger.py
swagger_get_parameters(definitions, handler, url, major) ==
    swagger_parameters_from(
        [parameters |-> <<>>, definitions |-> definitions,
         handler_parameters |-> handler.parameters, raised |-> ""],
        1, url, major)

\* spec.to_dict(): the 2.x dialect keeps the registry under definitions,
\* 3.x under components.schemas
ToDict(major, paths, definitions) ==
    IF major < 3
    THEN [swagger |-> major, paths |-> paths, definitions |-> definitions]
    ELSE [openapi |-> major, paths |-> paths,
          components |-> [schemas |-> definitions]]

\* lines 117-130: the operation of one route
swagger_handler_spec(handler, parameters) ==
    LET usage == handler.doc
        described ==
            IF usage # <<>>
            THEN [content_type |-> "application/json",
                  summary |-> swagger_get_summary(usage), description |-> usage]
            ELSE [content_type |-> "application/json"]
    IN  IF parameters # <<>> THEN Put(described, "parameters", parameters)
        ELSE described

\* lines 114-132: the loop over the route table.  st is [table, paths,
\* definitions, raised]
RECURSIVE swagger_routes_from(_, _, _)
swagger_routes_from(st, i, major) ==
    IF i > Len(st.table) \/ st.raised # "" THEN st
    ELSE
        LET route == st.table[i]
            got == swagger_get_parameters(st.definitions, route.handler, route.url, major)
            handler_spec == swagger_handler_spec(route.handler, got.parameters)
            next ==
                IF got.raised # ""
                THEN [st EXCEPT
                        !.table[i].handler.parameters = got.handler_parameters,
                        !.raised = got.raised]
                ELSE [st EXCEPT
                        !.table[i].handler.parameters = got.handler_parameters,
                        !.definitions = got.definitions,
                        !.paths = AddPath(@, route.url, Lower(route.method), handler_spec)]
        IN  swagger_routes_from(next, i + 1, major)

\* generate_spec(hug_api, openapi_version=...): [table, raised, document]
generate_spec(table, major) ==
    IF table = <<>>
    THEN [table |-> table, raised |-> "", document |-> ToDict(major, EmptyDict, EmptyDict)]
    ELSE
        LET st == swagger_routes_from(
                      [table |-> table, paths |-> EmptyDict,
                       definitions |-> EmptyDict, raised |-> ""], 1, major)
        IN  [table |-> st.table, raised |-> st.raised,
             document |-> ToDict(major, st.paths, st.definitions)]

(***************************************************************************)
(* swagger.py (the decorators)                                             *)
(***************************************************************************)
\* An insertion-ordered dict: the keys in order, and the value of each
EmptyOrdered == [order |-> <<>>, at |-> EmptyDict]
OrderedPut(d, k, v) ==
    [order |-> IF k \in DOMAIN d.at THEN d.order ELSE Append(d.order, k),
     at |-> Put(d.at, k, v)]

\* response(response_code, schema, description) applied to a handler whose
\* swagger_responses is responses; None stands for an argument left out
response(responses, response_code, schema, description) ==
    LET d0 == EmptyDict
        d1 == IF schema # None THEN Put(d0, "schema", schema) ELSE d0
        d2 == IF description # None THEN Put(d1, "description", description) ELSE d1
    IN  OrderedPut(responses, response_code, d2)

\* response_codes(*codes) for one code
response_codes(responses, code) == OrderedPut(responses, code, EmptyDict)

(***************************************************************************)
(* hug_swagger/__init__.py                                                 *)
(***************************************************************************)
get_summary(description) == Head(description)

where_is_parameter(name, url) ==
    IF Contains(url, Placeholder(name)) THEN "path" ELSE "query"

\* interface.defaults: the arguments that have a default value
InterfaceDefaults(handler) ==
    {handler.parameters[i].name :
        i \in {j \in 1 .. Len(handler.parameters) : handler.parameters[j].default # EMPTY}}

\* lines 63-66: the field annotation after the two attribute assignments
locate_field(parameter_type, name, url, defaults) ==
    [parameter_type EXCEPT
        !.metadata = [location |-> where_is_parameter(name, url)],
        !.required = name \notin defaults]

\* lines 67-70
field_parameter(parameter_type, name, default, url, defaults) ==
    LET parameter_place == where_is_parameter(name, url)
        parameter == Field2Parameter(parameter_type, name, parameter_place, 2)
    IN  IF name \in defaults THEN Put(parameter, "default", default) ELSE parameter

\* lines 74-79
schema_name_of(x) == ClassName(x.cls)

\* lines 83-91
body_parameter(schema_name) ==
    [in |-> "body", name |-> BODY, required |-> TRUE,
     schema |-> Ref("#/definitions/" \o schema_name)]

\* lines 55-99: one turn of the loop over interface.parameters
classify(acc, i, url, defaults) ==
    LET p == acc.handler_parameters[i]
        name == p.name
        parameter_type == p.annotation
    IN  IF IsDirective(parameter_type) THEN acc
        ELSE IF parameter_type # EMPTY THEN
            IF IsField(parameter_type) THEN
                LET located == locate_field(parameter_type, name, url, defaults)
                IN  [acc EXCEPT
                        !.handler_parameters[i].annotation = located,
                        !.parameters = Append(@,
                            field_parameter(located, name, p.default, url, defaults))]
            ELSE IF name = BODY /\ (IsSchema(parameter_type) \/ IsSchemaMeta(parameter_type)) THEN
                LET schema_name == schema_name_of(parameter_type)
                    schema == SchemaInstance(parameter_type.cls)
                IN  [acc EXCEPT
                        !.definitions = Definition(@, schema_name, schema),
                        !.parameters = Append(@, body_parameter(schema_name))]
            ELSE acc
        ELSE acc

RECURSIVE parameters_from(_, _, _, _)
parameters_from(acc, i, url, defaults) ==
    IF i > Len(acc.handler_parameters) \/ acc.raised # "" THEN acc
    ELSE parameters_from(classify(acc, i, url, defaults), i + 1, url, defaults)

\* get_parameters(url, interface, spec) of __init__.py
get_parameters(url, handler, definitions) ==
    parameters_from(
        [parameters |-> <<>>, definitions |-> definitions,
         handler_parameters |-> handler.parameters, raised |-> ""],
        1, url, InterfaceDefaults(handler))

\* lines 107-110: responses is a shallow copy of handler.swagger_responses,
\* so a descriptor already attached for 200 is the handler's own dict and
\* the assignment of 'schema' writes to it; a descriptor created by
\* setdefault belongs to the copy alone.  [handler, responses]
annotate_responses(handler) ==
    LET annotated_response_schema == handler.return_annotation
        attached == handler.swagger_responses
    IN  IF annotated_response_schema # EMPTY
        THEN IF 200 \in DOMAIN attached.at
             THEN LET shared == Put(attached.at[200], "schema", annotated_response_schema)
                  IN  [handler |-> [handler EXCEPT !.swagger_responses.at[200] = shared],
                       responses |-> [attached EXCEPT !.at[200] = shared]]
             ELSE [handler |-> handler,
                   responses |-> OrderedPut(attached, 200,
                                    Put(EmptyDict, "schema", annotated_response_schema))]
        ELSE [handler |-> handler, responses |-> attached]

\* lines 112-113
default_response(responses, use_default_response) ==
    IF use_default_response /\ 200 \notin DOMAIN responses.at
    THEN OrderedPut(responses, 200, EmptyDict)
    ELSE responses

\* lines 116-137: one turn of the loop over responses.items().  acc is
\* [responses, definitions].  The local name schema is set to None for an
\* unrecognized value; the copied descriptor is stored back as it is
resolve_response(acc, code) ==
    LET copied == acc.responses.at[code]
    IN  IF "schema" \notin DOMAIN copied THEN acc
        ELSE
            LET schema == copied["schema"]
                recognized == IsStr(schema) \/ IsSchema(schema) \/ IsSchemaMeta(schema)
                name == IF IsStr(schema) THEN schema.text ELSE ClassName(schema.cls)
                definitions ==
                    IF IsSchema(schema) \/ IsSchemaMeta(schema)
                    THEN Definition(acc.definitions, name, SchemaInstance(schema.cls))
                    ELSE acc.definitions
                stored == IF recognized
                          THEN Put(copied, "schema", Ref("#/definitions/" \o name))
                          ELSE copied
            IN  [responses |-> [acc.responses EXCEPT !.at[code] = stored],
                 definitions |-> IF recognized THEN definitions ELSE acc.definitions]

RECURSIVE responses_from(_, _, _)
responses_from(acc, order, i) ==
    IF i > Len(order) THEN acc
    ELSE responses_from(resolve_response(acc, order[i]), order, i + 1)

\* get_operation(interface, spec, use_default_response):
\* [handler, responses, definitions]
get_operation(handler, definitions, use_default_response) ==
    LET annotated == annotate_responses(handler)
        responses == default_response(annotated.responses, use_default_response)
        resolved == responses_from(
                        [responses |-> responses, definitions |-> definitions],
                        responses.order, 1)
    IN  [handler |-> annotated.handler, responses |-> resolved.responses,
         definitions |-> resolved.definitions]

\* lines 167-186: the operation of one route
methods_data(handler, parameters, responses) ==
    LET usage == handler.doc
        described ==
            IF usage # <<>>
            THEN [content_type |-> "application/json",
                  summary |-> get_summary(usage), description |-> usage]
            ELSE [content_type |-> "application/json"]
        with_parameters ==
            IF parameters # <<>> THEN Put(described, "parameters", parameters)
            ELSE described
    IN  IF responses.order # <<>> THEN Put(with_parameters, "responses", responses)
        ELSE with_parameters

\* lines 188-189: a version that is not iterable is a list of one
version_list(versions) ==
    IF versions.kind = "tuple" THEN versions.items ELSE <<versions>>

\* lines 192-193
versioned_url(version, url) ==
    IF Truthy(version) THEN <<"/", "v">> \o IntToStr(version.n) \o url ELSE url

\* lines 191-197
RECURSIVE add_versions(_, _, _, _, _, _)
add_versions(paths, versions, i, url, method, data) ==
    IF i > Len(versions) THEN paths
    ELSE add_versions(AddPath(paths, versioned_url(versions[i], url), Lower(method), data),
                      versions, i + 1, url, method, data)

\* lines 164-197: the loop over the route table
RECURSIVE routes_from(_, _, _)
routes_from(st, i, use_default_response) ==
    IF i > Len(st.table) \/ st.raised # "" THEN st
    ELSE
        LET route == st.table[i]
            got == get_parameters(route.url, route.handler, st.definitions)
            located == [route.handler EXCEPT !.parameters = got.handler_parameters]
            op == get_operation(located, got.definitions, use_default_response)
            data == methods_data(op.handler, got.parameters, op.responses)
            next == [st EXCEPT
                        !.table[i].handler = op.handler,
                        !.definitions = op.definitions,
                        !.paths = add_versions(@, version_list(route.versions), 1,
                                               route.url, route.method, data)]
        IN  routes_from(next, i + 1, use_default_response)

\* swagger_json(hug_api): [table, raised, document].  DEFINITIONS_PATH is
\* None; routes[''] of an application without routes raises KeyError
swagger_json(table, use_default_response) ==
    IF table = <<>>
    THEN [table |-> table, raised |-> "KeyError", document |-> EmptyDict]
    ELSE
        LET st == routes_from(
                      [table |-> table, paths |-> EmptyDict,
                       definitions |-> EmptyDict, raised |-> ""],
                      1, use_default_response)
        IN  [table |-> st.table, raised |-> st.raised,
             document |-> ToDict(2, st.paths, st.definitions)]

(***************************************************************************)
(* The applications the model starts from.                                 *)
(***************************************************************************)
RECURSIVE SeqsUpTo(_, _)
SeqsUpTo(S, n) ==
    IF n = 0 THEN {<<>>}
    ELSE LET shorter == SeqsUpTo(S, n - 1)
         IN  shorter \cup {Append(q, c) : q \in shorter, c \in S}

DistinctNames(parameters) ==
    \A i, j \in 1 .. Len(parameters) :
        parameters[i].name = parameters[j].name => i = j

NoResponses == EmptyOrdered
NoDoc == <<>>

\* urls: "/" followed by at most MaxUrlLen of these characters
UrlChars == {"{", "}", "a", "b"}
Urls == {<<"/">> \o t : t \in SeqsUpTo(UrlChars, MaxUrlLen)}

\* fields as the application declares them: marshmallow's default for
\* required is False, metadata holds whatever keywords were passed
PlainField == Field("integer", EmptyDict, FALSE)
HeaderField == Field("string", [location |-> "headers"], TRUE)

DefaultValues == {EMPTY, None, IntValue(0), IntValue(5)}

\* one handler with one typed-field argument on every url
LocationNames == {<<"a">>, <<"a", "b">>}
LocationTables ==
    {<<Route(url, "GET", None,
             Handler(<<Parameter(name, field, EMPTY)>>, EMPTY, NoResponses, NoDoc))>> :
        url \in Urls, name \in LocationNames, field \in {PlainField, HeaderField}}

\* handlers with up to MaxArgs arguments: one drawn from every combination
\* of name, annotation and default, the others from a few ordinary ones
ArgNames == {<<"a">>, BODY, REQUEST, RESPONSE, HUG_PREFIX \o <<"a">>, <<"h", "u", "g">>}
ArgAnnotations ==
    {EMPTY, PlainField, HeaderField, Directive, SchemaClass("S1"),
     SchemaInstance("S1"), OtherClass, OtherObject}
AnyArgs ==
    {Parameter(n, a, d) :
        n \in ArgNames, a \in {PlainField, HeaderField}, d \in DefaultValues}
    \cup {Parameter(n, a, d) :
        n \in ArgNames, a \in ArgAnnotations, d \in {EMPTY, IntValue(5)}}
OrdinaryArgs ==
    {Parameter(<<"x">>, PlainField, EMPTY),
     Parameter(<<"y">>, HeaderField, IntValue(0)),
     Parameter(<<"z">>, OtherObject, EMPTY)}
InsertAt(q, k, x) == SubSeq(q, 1, k) \o <<x>> \o SubSeq(q, k + 1, Len(q))
OrdinaryLists == {q \in SeqsUpTo(OrdinaryArgs, MaxArgs) : DistinctNames(q)}
ArgLists ==
    OrdinaryLists
    \cup UNION {{InsertAt(q, k, x) : k \in 0 .. Len(q), x \in AnyArgs} :
                    q \in {o \in OrdinaryLists : Len(o) < MaxArgs}}
ParameterUrl == <<"/", "{", "a", "}", "/", "{", "x", "}">>
OrdinaryRoute ==
    Route(<<"/", "o">>, "POST", None,
          Handler(<<Parameter(<<"x">>, PlainField, IntValue(5))>>, EMPTY, NoResponses, NoDoc))
ParameterTables ==
    {<<Route(ParameterUrl, "GET", None, Handler(args, EMPTY, NoResponses, NoDoc)),
       OrdinaryRoute>> :
        args \in ArgLists}

\* up to MaxRoutes routes whose handlers take a Schema as body
RouteUrl(i) == <<"/", "r">> \o IntToStr(i)
BodyAnnotations ==
    {SchemaClass(c) : c \in SchemaClasses} \cup {SchemaInstance(c) : c \in SchemaClasses}
BodyTables ==
    {[i \in 1 .. Len(q) |->
        Route(RouteUrl(i), "POST", None,
              Handler(<<Parameter(BODY, q[i], EMPTY)>>, EMPTY, NoResponses, NoDoc))] :
        q \in SeqsUpTo(BodyAnnotations, MaxRoutes)}

\* response metadata: up to MaxDecorators decorators on one handler
ResponseCodes == {200, 404}
ResponseSchemas ==
    {None, StrValue("B"), SchemaClass("S1"), SchemaInstance("S4"), OtherObject}
Descriptions == {None, StrValue("ok")}
RECURSIVE Decorated(_)
Decorated(n) ==
    IF n = 0 THEN {EmptyOrdered}
    ELSE LET fewer == Decorated(n - 1)
         IN  fewer
             \cup {response(r, code, schema, description) :
                     r \in fewer, code \in ResponseCodes,
                     schema \in ResponseSchemas, description \in Descriptions}
             \cup {response_codes(r, code) : r \in fewer, code \in ResponseCodes}
ReturnAnnotations ==
    {EMPTY, None, StrValue("A"), SchemaClass("S1"), SchemaInstance("S2"), OtherObject}
ResponseTables ==
    {<<Route(<<"/">>, "GET", None, Handler(<<>>, annotation, responses, NoDoc))>> :
        annotation \in ReturnAnnotations, responses \in Decorated(MaxDecorators)}

\* versioned routes: the key of a route is None, one version, or a tuple
\* of versions
VersionKeys ==
    {None}
    \cup {IntValue(v) : v \in 0 .. MaxVersion}
    \cup {[kind |-> "tuple", items |-> <<IntValue(vw[1]), IntValue(vw[2])>>] :
            vw \in {p \in (0 .. MaxVersion) \X (0 .. MaxVersion) : p[1] < p[2]}}
RouteDoc(i) == <<"handler " \o DigitChar(i), "details">>
VersionTables ==
    {[i \in 1 .. Len(q) |->
        Route(RouteUrl(i), q[i][1], q[i][2],
              Handler(<<>>, EMPTY, NoResponses, RouteDoc(i)))] :
        q \in SeqsUpTo({"GET", "POST"} \X VersionKeys, MaxRoutes) \ {<<>>}}

InitWith(tables, defaults) ==
    /\ routes \in tables
    /\ settings \in {[USE_DEFAULT_RESPONSE |-> b] : b \in defaults}
    /\ ret = [call |-> "none"]

InitLocation == InitWith(LocationTables, {TRUE})
InitParameters == InitWith(ParameterTables, {TRUE})
InitBody == InitWith(BodyTables, {TRUE})
InitResponses == InitWith(ResponseTables, BOOLEAN)
InitVersions == InitWith(VersionTables, {TRUE})

Init ==
    \/ InitLocation
    \/ InitParameters
    \/ InitBody
    \/ InitResponses
    \/ InitVersions

(***************************************************************************)
(* The calls.                                                              *)
(***************************************************************************)
Returned(call, r) ==
    IF r.raised # ""
    THEN [call |-> call, raised |-> r.raised]
    ELSE [call |-> call, raised |-> "", document |-> r.document]

\* generate_spec(hug_api, openapi_version=...) under either dialect
GenerateSpec ==
    \E major \in {2, 3} :
        LET r == generate_spec(routes, major)
        IN  /\ routes' = r.table
            /\ ret' = Returned("generate_spec", r)
            /\ UNCHANGED settings

\* GET /swagger.json
SwaggerJson ==
    LET r == swagger_json(routes, settings.USE_DEFAULT_RESPONSE)
    IN  /\ routes' = r.table
        /\ ret' = Returned("swagger_json", r)
        /\ UNCHANGED settings

\* get_operation(interface, spec, use_default_response) on a fresh spec
GetOperation ==
    \E i \in 1 .. Len(routes), use_default_response \in BOOLEAN :
        LET r == get_operation(routes[i].handler, EmptyDict, use_default_response)
        IN  /\ routes' = [routes EXCEPT ![i].handler = r.handler]
            /\ ret' = [call |-> "get_operation", raised |-> "", route |-> i,
                       responses |-> r.responses, definitions |-> r.definitions]
            /\ UNCHANGED settings

Next ==
    \/ GenerateSpec
    \/ SwaggerJson
    \/ GetOperation

Spec == Init /\ [][Next]_vars
SpecLocation == InitLocation /\ [][Next]_vars
SpecParameters == InitParameters /\ [][Next]_vars
SpecBody == InitBody /\ [][Next]_vars
SpecResponses == InitResponses /\ [][Next]_vars
SpecVersions == InitVersions /\ [][Next]_vars

(***************************************************************************)
(* Claims.                                                                 *)
(***************************************************************************)
IsRef(x) == DOMAIN x = {"$ref"}

\* the responses a call returned: those of get_operation itself, and those
\* swagger_json put into each operation
ReturnedResponses ==
    IF ret.call = "get_operation" THEN {ret.responses}
    ELSE IF ret.call = "swagger_json" /\ ret.raised = ""
    THEN {ret.document.paths[path][method]["responses"] :
            <<path, method>> \in
                {pm \in UNION {{<<q, m>> : m \in DOMAIN ret.document.paths[q]} :
                                  q \in DOMAIN ret.document.paths} :
                    "responses" \in DOMAIN ret.document.paths[pm[1]][pm[2]]}}
    ELSE {}

\* C1: every response descriptor get_operation returns has a 'schema' that
\* is a {'$ref': ...} object, or has no 'schema' key at all.
C1_SchemaIsRefOrAbsent ==
    \A responses \in ReturnedResponses :
        \A code \in DOMAIN responses.at :
            "schema" \in DOMAIN responses.at[code]
                => IsRef(responses.at[code]["schema"])

\* C1: a handler whose response schema is of an unrecognized type went
\* through get_operation, and the descriptor kept its description.
C1_UnrecognizedSchemaSeen ==
    /\ ret.call = "get_operation"
    /\ \E code \in DOMAIN routes[1].handler.swagger_responses.at :
        LET attached == routes[1].handler.swagger_responses.at[code]
        IN  /\ "schema" \in DOMAIN attached
            /\ attached["schema"] = OtherObject
            /\ "description" \in DOMAIN attached
            /\ "description" \in DOMAIN ret.responses.at[code]

\* C2: a call of get_operation or swagger_json leaves the swagger_responses
\* of every handler, and every descriptor in it, as it was before the call.
C2_ResponseMetadataUnchanged ==
    [][ret'.call \in {"get_operation", "swagger_json"}
        => \A i \in 1 .. Len(routes) :
            routes'[i].handler.swagger_responses = routes[i].handler.swagger_responses]_vars

\* C2: a handler with an explicit descriptor for 200 and a return
\* annotation went through get_operation.
C2_AnnotatedAndExplicit200 ==
    /\ ret.call = "get_operation"
    /\ routes[1].handler.return_annotation # EMPTY
    /\ 200 \in DOMAIN routes[1].handler.swagger_responses.at

\* the calls that generate a document, when they returned one
Generated == ret.call \in {"generate_spec", "swagger_json"} /\ ret.raised = ""

\* the operation generated for route i of a table without versions, and
\* its parameter list (empty when the operation has no 'parameters' key)
OperationOf(i) == ret.document.paths[routes[i].url][Lower(routes[i].method)]
HasOperation(i) ==
    /\ routes[i].url \in DOMAIN ret.document.paths
    /\ Lower(routes[i].method) \in DOMAIN ret.document.paths[routes[i].url]
ParametersOf(i) ==
    IF "parameters" \in DOMAIN OperationOf(i) THEN OperationOf(i)["parameters"] ELSE <<>>
DescriptorsOf(i, name) ==
    {ParametersOf(i)[k] : k \in {j \in 1 .. Len(ParametersOf(i)) : ParametersOf(i)[j]["name"] = name}}
ArgsOf(i) == {routes[i].handler.parameters[k] : k \in 1 .. Len(routes[i].handler.parameters)}

\* C3: generation leaves every handler's argument annotations (metadata
\* and required of a typed field included), defaults and docstring as
\* they were before the call.
C3_InterfacesOnlyRead ==
    [][ret'.call \in {"generate_spec", "swagger_json"}
        => \A i \in 1 .. Len(routes) :
            /\ routes'[i].handler.parameters = routes[i].handler.parameters
            /\ routes'[i].handler.doc = routes[i].handler.doc]_vars

\* C3: a handler with a typed-field argument went through generation.
C3_FieldArgumentGenerated ==
    /\ Generated
    /\ \E p \in ArgsOf(1) : IsField(p.annotation) /\ DescriptorsOf(1, p.name) # {}

\* the url holds "{" name "}" at some position
HasPlaceholder(url, name) ==
    \E i \in 1 .. Len(url) :
        /\ i + Len(name) + 1 <= Len(url)
        /\ url[i] = "{"
        /\ \A k \in 1 .. Len(name) : url[i + k] = name[k]
        /\ url[i + Len(name) + 1] = "}"

\* C4: the descriptor of a typed-field argument has in = "path" exactly
\* when the url contains the placeholder "{name}", and in = "query"
\* otherwise.
C4_PathIffPlaceholder ==
    Generated =>
        \A i \in 1 .. Len(routes) : \A p \in ArgsOf(i) :
            IsField(p.annotation) =>
                /\ DescriptorsOf(i, p.name) # {}
                /\ \A d \in DescriptorsOf(i, p.name) :
                    d["in"] = IF HasPlaceholder(routes[i].url, p.name)
                              THEN "path" ELSE "query"

\* C4: an argument whose placeholder is not at the start of the url was
\* documented as a path parameter.
C4_PathParameterSeen ==
    /\ Generated
    /\ Len(routes[1].url) = 5
    /\ routes[1].url[2] # "{"
    /\ \E d \in DescriptorsOf(1, <<"a">>) : d["in"] = "path"

IsReserved(name) ==
    \/ name = REQUEST
    \/ name = RESPONSE
    \/ (Len(name) >= 4 /\ name[1] = "h" /\ name[2] = "u" /\ name[3] = "g" /\ name[4] = "_")

C6_HelpersNeverDocumented ==
    (ret.call = "generate_spec" /\ ret.raised = "") =>
        \A i \in 1 .. Len(routes) :
            LET helpers == {p \in ArgsOf(i) : IsReserved(p.name) \/ IsDirective(p.annotation)}
            IN  /\ HasOperation(i)
                /\ \A p \in helpers : DescriptorsOf(i, p.name) = {}
                /\ (ArgsOf(i) # {} /\ helpers = ArgsOf(i))
                    => "parameters" \notin DOMAIN OperationOf(i)

\* C6: a handler with an ordinary argument and a typed-field argument named
\* like a helper (with a default) went through generate_spec.
C6_HelperWithFieldSeen ==
    /\ ret.call = "generate_spec"
    /\ ret.raised = ""
    /\ Len(ParametersOf(1)) = 1
    /\ \E p \in ArgsOf(1) :
        IsReserved(p.name) /\ IsField(p.annotation) /\ p.default # EMPTY

\* the schema registry of a returned document, under either dialect
DefinitionsOf(document) ==
    IF "definitions" \in DOMAIN document THEN document.definitions
    ELSE document.components.schemas

IsSchemaAnnotation(x) == IsSchema(x) \/ IsSchemaMeta(x)
\* the routes whose handler declares a body argument annotated with a Schema
BodyRoutes(table) ==
    {i \in 1 .. Len(table) :
        \E k \in 1 .. Len(table[i].handler.parameters) :
            /\ table[i].handler.parameters[k].name = BODY
            /\ IsSchemaAnnotation(table[i].handler.parameters[k].annotation)}
BodyClass(table, i) ==
    LET args == table[i].handler.parameters
        k == CHOOSE j \in 1 .. Len(args) : args[j].name = BODY
    IN  args[k].annotation.cls
QualifiedName(c) == ClassModule(c) \o "." \o ClassName(c)

\* C7: when the routes' body arguments are all annotated with the same
\* Schema (as class or as instance), generate_spec does not raise, every
\* operation has exactly one parameter {in: body, name: body, required:
\* true, schema: {$ref}} naming the module-qualified schema, and the
\* registry holds exactly one definition, under that name.
C7_SharedBodySchema ==
    (/\ ret.call = "generate_spec"
     /\ routes # <<>>
     /\ BodyRoutes(routes) = 1 .. Len(routes)
     /\ \A i, j \in BodyRoutes(routes) : BodyClass(routes, i) = BodyClass(routes, j))
    => /\ ret.raised = ""
       /\ LET name == QualifiedName(BodyClass(routes, 1))
          IN  /\ \A i \in 1 .. Len(routes) :
                    /\ HasOperation(i)
                    /\ Len(ParametersOf(i)) = 1
                    /\ DOMAIN ParametersOf(i)[1] = {"in", "name", "required", "schema"}
                    /\ ParametersOf(i)[1]["in"] = "body"
                    /\ ParametersOf(i)[1]["name"] = BODY
                    /\ ParametersOf(i)[1]["required"] = TRUE
                    /\ ParametersOf(i)[1]["schema"] \in
                         {Ref("#/components/schemas/" \o name), Ref("#/definitions/" \o name)}
              /\ DOMAIN DefinitionsOf(ret.document) = {name}
              /\ DefinitionsOf(ret.document)[name] = ClassFields(BodyClass(routes, 1))

\* C7: two routes, one taking the Schema class and one an instance of it,
\* went through generate_spec.
C7_ClassAndInstanceSeen ==
    /\ ret.call = "generate_spec"
    /\ Len(routes) = 2
    /\ routes[1].handler.parameters[1].annotation = SchemaClass("S1")
    /\ routes[2].handler.parameters[1].annotation = SchemaInstance("S1")

\* the registry name the called generator gives a Schema
ResolvedName(call, c) ==
    IF call = "generate_spec" THEN QualifiedName(c) ELSE ClassName(c)

\* C8: when two body schemas of different content resolve to the same
\* registry name, the second registration is surfaced as an error:
\* generation returns no document in which the second schema's body
\* parameter references the first schema's definition.
C8_ConflictSurfaced ==
    ret.call \in {"generate_spec", "swagger_json"} =>
        \A i, j \in BodyRoutes(routes) :
            LET ci == BodyClass(routes, i)
                cj == BodyClass(routes, j)
                name == ResolvedName(ret.call, cj)
            IN  (/\ i < j
                 /\ ResolvedName(ret.call, ci) = name
                 /\ ClassFields(ci) # ClassFields(cj))
                => \/ ret.raised # ""
                   \/ ~(/\ name \in DOMAIN DefinitionsOf(ret.document)
                        /\ DefinitionsOf(ret.document)[name] = ClassFields(ci)
                        /\ \E d \in DescriptorsOf(j, BODY) :
                            d["schema"] \in {Ref("#/components/schemas/" \o name),
                                             Ref("#/definitions/" \o name)})

\* C8: two routes whose body schemas are distinct classes of the same name
\* in the same module went through generate_spec.
C8_ConflictingSchemasSeen ==
    /\ ret.call = "generate_spec"
    /\ Len(routes) = 2
    /\ BodyClass(routes, 1) = "S1"
    /\ BodyClass(routes, 2) = "S2"

\* an argument neither generator documents: its annotation is no typed
\* field, no directive and (for body) no Schema class or instance.  An
\* argument without annotation is among them
IsUnsupported(p) ==
    /\ ~IsField(p.annotation)
    /\ ~IsDirective(p.annotation)
    /\ ~(p.name = BODY /\ IsSchemaAnnotation(p.annotation))

\* the same, and every body argument that is no Schema class or instance
IsUnsupportedOrNonSchemaBody(p) ==
    \/ IsUnsupported(p)
    \/ (p.name = BODY /\ ~IsSchemaAnnotation(p.annotation))

\* the arguments a claim counts as left out: as stated, or as amended
IsLeftOut(p, stated) ==
    IF stated THEN IsUnsupportedOrNonSchemaBody(p) ELSE IsUnsupported(p)

RECURSIVE Remaining(_, _)
Remaining(args, stated) ==
    IF args = <<>> THEN <<>>
    ELSE IF IsLeftOut(Head(args), stated) THEN Remaining(Tail(args), stated)
    ELSE <<Head(args)>> \o Remaining(Tail(args), stated)

\* the table with those arguments taken out of the signatures
Without(table, stated) ==
    [i \in 1 .. Len(table) |->
        [table[i] EXCEPT !.handler.parameters = Remaining(@, stated)]]

\* the document the call that returned r generates from table
Regenerated(table, r, use_default_response) ==
    IF r.call = "generate_spec"
    THEN generate_spec(table, IF "swagger" \in DOMAIN r.document THEN 2 ELSE 3).document
    ELSE swagger_json(table, use_default_response).document

\* the call that returned r on table did not raise, documented every route,
\* kept those arguments out of the parameter lists, and generated what it
\* generates from the table without them
SkippedCleanly(table, r, use_default_response, stated) ==
    /\ r.raised = ""
    /\ \A i \in 1 .. Len(table) :
        LET url == table[i].url
            method == Lower(table[i].method)
            args == table[i].handler.parameters
        IN  /\ url \in DOMAIN r.document.paths
            /\ method \in DOMAIN r.document.paths[url]
            /\ \A k \in 1 .. Len(args) :
                IsLeftOut(args[k], stated) =>
                    \/ "parameters" \notin DOMAIN r.document.paths[url][method]
                    \/ \A n \in 1 .. Len(r.document.paths[url][method]["parameters"]) :
                        r.document.paths[url][method]["parameters"][n]["name"] # args[k].name
    /\ r.document = Regenerated(Without(table, stated), r, use_default_response)

\* C9 as stated: an argument with an unsupported annotation, with no
\* annotation, or named body with an annotation that is neither a Schema
\* class nor a Schema instance never makes generation raise, is absent
\* from the parameter list, and leaves the rest of the document as if it
\* did not exist.
C9_NonSchemaBodySkipped ==
    [][ret'.call \in {"generate_spec", "swagger_json"}
        => SkippedCleanly(routes, ret', settings.USE_DEFAULT_RESPONSE, TRUE)]_vars

\* C9 as amended: the same of an argument with an unsupported annotation,
\* with no annotation, or named body with an annotation that is neither a
\* typed field, a Schema class nor a Schema instance.
C9_UnsupportedSkipped ==
    [][ret'.call \in {"generate_spec", "swagger_json"}
        => SkippedCleanly(routes, ret', settings.USE_DEFAULT_RESPONSE, FALSE)]_vars

\* C9: a handler with a body argument annotated with a class that is no
\* Schema, next to a documented argument, went through generate_spec.
C9_WrongBodyTypeSeen ==
    /\ ret.call = "generate_spec"
    /\ ret.raised = ""
    /\ \E p \in ArgsOf(1) : p.name = BODY /\ p.annotation = OtherClass
    /\ Len(ParametersOf(1)) = 1
    /\ Len(ParametersOf(2)) = 1

\* the versions of a route's key
VersionsOf(versions) ==
    IF versions.kind = "tuple"
    THEN {versions.items[k] : k \in 1 .. Len(versions.items)}
    ELSE {versions}

\* the operation at (path, method) is the one generated for this handler
IsOperationOf(document, path, method, handler) ==
    /\ path \in DOMAIN document.paths
    /\ method \in DOMAIN document.paths[path]
    /\ "description" \in DOMAIN document.paths[path][method]
    /\ document.paths[path][method]["description"] = handler.doc

\* C10: after generation the operation of every route is under the
\* lowercased method at "/v{version}" + url for every version of its key
\* (0 included), at the url itself when the key is None, and no operation
\* of a versioned route is at a path without its version prefix.
C10_VersionedPaths ==
    Generated =>
        \A i \in 1 .. Len(routes) :
            LET route == routes[i]
                method == Lower(route.method)
            IN  /\ \A v \in VersionsOf(route.versions) :
                    IsOperationOf(ret.document,
                        IF v = None THEN route.url
                        ELSE <<"/", "v">> \o IntToStr(v.n) \o route.url,
                        method, route.handler)
                /\ None \notin VersionsOf(route.versions)
                    => ~IsOperationOf(ret.document, route.url, method, route.handler)

\* C10: a route registered for version 0 went through swagger_json.
C10_VersionZeroSeen ==
    /\ ret.call = "swagger_json"
    /\ ret.raised = ""
    /\ \E i \in 1 .. Len(routes) : IntValue(0) \in VersionsOf(routes[i].versions)

\* the operations of a document
OperationsOf(document) ==
    UNION {{document.paths[path][method] : method \in DOMAIN document.paths[path]} :
             path \in DOMAIN document.paths}

\* the pointers of the {'$ref': p} objects a document carries as the schema
\* of a body parameter or of a response
BodyRefsOf(operation) ==
    IF "parameters" \notin DOMAIN operation THEN {}
    ELSE {operation["parameters"][k]["schema"]["$ref"] :
            k \in {j \in 1 .. Len(operation["parameters"]) :
                     operation["parameters"][j]["in"] = "body"}}
ResponseRefsOf(operation) ==
    IF "responses" \notin DOMAIN operation THEN {}
    ELSE LET responses == operation["responses"]
         IN  {responses.at[code]["schema"]["$ref"] :
                code \in {c \in DOMAIN responses.at :
                            /\ "schema" \in DOMAIN responses.at[c]
                            /\ DOMAIN responses.at[c]["schema"] = {"$ref"}}}
EmittedRefs(document) ==
    UNION {BodyRefsOf(operation) \cup ResponseRefsOf(operation) :
             operation \in OperationsOf(document)}

\* where a document of its dialect keeps the registered definitions
RegistryPath(document) ==
    IF "definitions" \in DOMAIN document THEN "#/definitions/"
    ELSE "#/components/schemas/"

\* the pointer names a definition registered in the document
Resolves(document, pointer) ==
    \E name \in DOMAIN DefinitionsOf(document) :
        pointer = RegistryPath(document) \o name

\* C11: in every document generation returns, under either dialect, each
\* {'$ref': p} emitted for a body parameter or a response schema (one given
\* as a bare name string included) points to a location of that document
\* holding a registered definition: 'definitions' in 2.x,
\* 'components.schemas' in 3.x.
C11_RefsResolve ==
    Generated => \A pointer \in EmittedRefs(ret.document) : Resolves(ret.document, pointer)

\* C11: generate_spec returned a 2.x document with a body parameter that
\* carries a reference.
C11_BodyRefIn2xSeen ==
    /\ ret.call = "generate_spec"
    /\ ret.raised = ""
    /\ "definitions" \in DOMAIN ret.document
    /\ EmittedRefs(ret.document) # {}

====
